---- MODULE Spec2Model ----
(***************************************************************************)
(* Model of nlp_architect/models/bist_parser.py: the BISTModel facade      *)
(* around the BIST dependency parser (MSTParserLSTM).                      *)
(*                                                                         *)
(* One BISTModel object is live at a time (a new construction replaces     *)
(* it).  Its attributes options / params / model are the variables; an     *)
(* attribute that was never assigned is Unset.  The files the facade       *)
(* touches are in disk.  last records the most recent call: its operation, *)
(* arguments, outcome (return value or exception) and the collaborator     *)
(* calls it completed, in order.  Every action is one whole method call.   *)
(*                                                                         *)
(* Two history variables: ready holds once a fit or load of the live       *)
(* object passed its guard and returned; saved remembers a save that       *)
(* returned on an object with a model (the path, the bundle, the options)  *)
(* while the calls that follow are a construction with the same options    *)
(* and then a load of that path, and is None otherwise.                    *)
(*                                                                         *)
(* Strings are sequences of tokens; "." and "/" are tokens of their own,   *)
(* so that rindex('.') and os.path.dirname are computed as the code does.  *)
(***************************************************************************)
EXTENDS Integers, Sequences, FiniteSets, TLC

VARIABLES options, params, model, disk, ready, saved, last

vars == <<options, params, model, disk, ready, saved, last>>

(***************************************************************************)
(* Bounds                                                                  *)
(***************************************************************************)
MaxEpochs == 2

(***************************************************************************)
(* Python values                                                           *)
(***************************************************************************)
None == [type |-> "NoneType"]
Unset == [type |-> "unset"]
PyStr(s) == [type |-> "str", s |-> s]
PyInt(n) == [type |-> "int", n |-> n]
PyBool(b) == [type |-> "bool", b |-> b]
PyFloat(n) == [type |-> "float", f |-> n]
PyTuple(xs) == [type |-> "tuple", items |-> xs]
PyList(xs) == [type |-> "list", items |-> xs]

\* isinstance(v, str)
IsStr(v) == v.type = "str"

\* isinstance(v, int): bool is a subclass of int
IsInt(v) == v.type \in {"int", "bool"}

\* the integer value of an int instance, as range() reads it
IntOf(v) == IF v.type = "bool" THEN (IF v.b THEN 1 ELSE 0) ELSE v.n

\* Python truth value of an argument
Truthy(v) ==
    CASE v.type = "NoneType" -> FALSE
      [] v.type = "str" -> Len(v.s) > 0
      [] v.type = "int" -> v.n # 0
      [] v.type = "bool" -> v.b
      [] v.type = "float" -> v.f # 0
      [] v.type \in {"tuple", "list"} -> Len(v.items) > 0
      [] OTHER -> TRUE

\* hasattr(v, '__iter__')
IsIterable(v) == v.type \in {"str", "tuple", "list"}

Return(v) == [kind |-> "return", value |-> v, exc |-> "none"]
Raise(e) == [kind |-> "raise", value |-> None, exc |-> e]

(***************************************************************************)
(* Paths                                                                   *)
(***************************************************************************)
TrainFile == <<"a", ".", "c">>
NoExtFile == <<"b">>
DotDirFile == <<"x", ".", "y", "/", "b">>
MissingFile == <<"n", ".", "c">>
ModelFile == <<"m", "/", "w">>
BareModelFile == <<"w">>
NoDirModelFile == <<"q", "/", "w">>
ParamsName == <<"params", ".", "json">>

\* the directories that exist; the empty path is not a directory
Dirs == {<<"x", ".", "y">>, <<"m">>}

\* os.path.isdir
IsDir(p) == p \in Dirs

\* the positions of token c in s
Positions(s, c) == {i \in 1..Len(s) : s[i] = c}

Last(S) == CHOOSE i \in S : \A j \in S : j <= i

HasDot(s) == Positions(s, ".") # {}

\* s.rindex('.'), 1-based; the code raises ValueError when there is none
RIndex(s) == Last(Positions(s, "."))

AllSlashes(s) == \A i \in 1..Len(s) : s[i] = "/"

RECURSIVE RStripSlashes(_)
RStripSlashes(s) ==
    IF Len(s) > 0 /\ s[Len(s)] = "/" THEN RStripSlashes(SubSeq(s, 1, Len(s) - 1)) ELSE s

\* os.path.dirname
Dirname(p) ==
    LET i == IF Positions(p, "/") = {} THEN 0 ELSE Last(Positions(p, "/"))
        head == SubSeq(p, 1, i)
    IN IF Len(head) > 0 /\ ~AllSlashes(head) THEN RStripSlashes(head) ELSE head

\* os.path.join(d, name) for a relative name
Join(d, name) ==
    IF Len(d) = 0 THEN name
    ELSE IF d[Len(d)] = "/" THEN d \o name
    ELSE d \o <<"/">> \o name

ParamsPath(p) == Join(Dirname(p), ParamsName)

\* dev[:ext] + '_epoch_' + str(epoch + 1) + '_pred' + dev[ext:]
EpochPredPath(dev, k) ==
    LET ext == RIndex(dev)
    IN SubSeq(dev, 1, ext - 1) \o <<"_epoch_", ToString(k), "_pred">>
         \o SubSeq(dev, ext, Len(dev))

\* dataset[:ext] + '_pred' + dataset[ext:]
PredPath(dataset) ==
    LET ext == RIndex(dataset)
    IN SubSeq(dataset, 1, ext - 1) \o <<"_pred">> \o SubSeq(dataset, ext, Len(dataset))

(***************************************************************************)
(* Files                                                                   *)
(***************************************************************************)
Absent == [kind |-> "absent"]
Conll == [kind |-> "conll"]
Weights == [kind |-> "weights"]
Json(doc) == [kind |-> "json", doc |-> doc]

DataFiles == {TrainFile, NoExtFile, DotDirFile}

DiskPaths ==
    DataFiles \cup {MissingFile, ModelFile, BareModelFile, NoDirModelFile}
      \cup {ParamsPath(p) : p \in {TrainFile, ModelFile, NoDirModelFile, DotDirFile}}

\* os.path.isfile
IsFile(p) == p \in DOMAIN disk /\ disk[p].kind # "absent"

(***************************************************************************)
(* json.dump / json.load on the parameter bundle                           *)
(***************************************************************************)
JNull == [j |-> "null"]
JArray(xs) == [j |-> "array", items |-> xs]
JEmpty == [j |-> "empty"]

\* json.dump: None -> null, tuple and list -> array
JsonDump(v) == IF v.type = "NoneType" THEN JNull ELSE JArray(v.items)

\* json.load of a well-formed document: null -> None, array -> list
JsonLoad(doc) == IF doc.j = "null" THEN None ELSE PyList(doc.items)

(***************************************************************************)
(* Collaborators                                                           *)
(***************************************************************************)
\* get_options_dict(activation, lstm_dims, lstm_layers, pos_dims)
get_options_dict(activation, lstm_dims, lstm_layers, pos_dims) ==
    [type |-> "dict", activation |-> activation, lstm_dims |-> lstm_dims,
     lstm_layers |-> lstm_layers, pos_dims |-> pos_dims]

\* words, w2i, pos, rels = utils.vocab(dataset)
Vocab(dataset) ==
    <<[part |-> "words", of |-> dataset], [part |-> "w2i", of |-> dataset],
      [part |-> "pos", of |-> dataset], [part |-> "rels", of |-> dataset]>>

\* MSTParserLSTM(*params): the handle remembers the bundle it was built from
MSTParserLSTM(p) == [type |-> "MSTParserLSTM", built |-> p]

\* the sentences of a CoNLL file, in file order
Sentences(path) == <<[sent |-> 1, of |-> path], [sent |-> 2, of |-> path]>>

\* model.predict: one parsed sentence per input sentence, in input order
Parsed(sents) == [i \in 1..Len(sents) |-> [parsed |-> sents[i]]]

\* utils.write_conll opens the file for writing: the directory part of the
\* path, when there is one, has to exist
Writable(p) == Dirname(p) = <<>> \/ IsDir(Dirname(p))

\* a completed collaborator call
Ev(e, a, b) == [ev |-> e, a |-> a, b |-> b]

\* where a collaborator call of the current method raises, if anywhere
NoFail == [at |-> "none", k |-> 0]
FailAt(a, k) == [at |-> a, k |-> k]

\* the collaborator calls of fit(dataset, epochs, dev) that may raise
FitFails(epochs, dev) ==
    {NoFail, FailAt("vocab", 0), FailAt("ctor", 0)}
      \cup {FailAt(a, k) :
              a \in {"train"} \cup (IF Truthy(dev) THEN {"predict", "write", "eval"} ELSE {}),
              k \in 1..(IF IsInt(epochs) THEN IntOf(epochs) ELSE 0)}
PredictFails == {NoFail, FailAt("predict", 1), FailAt("write", 1), FailAt("eval", 1)}
PredictConllFails == {NoFail, FailAt("predict", 1)}
LoadFails == {NoFail, FailAt("ctor", 0), FailAt("load", 0)}
SaveFails == {NoFail, FailAt("save", 0)}

(***************************************************************************)
(* BISTModel.__init__                                                      *)
(***************************************************************************)
\* variant: the guard also asks for positive values
InitGuardPositive(activation, lstm_layers, lstm_dims, pos_dims) ==
    /\ IsStr(activation) /\ IsInt(lstm_layers) /\ IsInt(lstm_dims) /\ IsInt(pos_dims)
    /\ IntOf(lstm_layers) > 0 /\ IntOf(lstm_dims) > 0 /\ IntOf(pos_dims) > 0

InitGuard(activation, lstm_layers, lstm_dims, pos_dims) ==
    IsStr(activation) /\ IsInt(lstm_layers) /\ IsInt(lstm_dims) /\ IsInt(pos_dims)

\* variant: the two None assignments moved out of the if
InitResultUnguarded(activation, lstm_layers, lstm_dims, pos_dims) ==
    [options |-> IF IsStr(activation) /\ IsInt(lstm_layers) /\ IsInt(lstm_dims)
                      /\ IsInt(pos_dims)
                 THEN get_options_dict(activation, lstm_dims, lstm_layers, pos_dims)
                 ELSE Unset,
     params |-> None, model |-> None]

\* the attributes of a new object after __init__
InitResult(activation, lstm_layers, lstm_dims, pos_dims) ==
    IF InitGuard(activation, lstm_layers, lstm_dims, pos_dims)
    THEN [options |-> get_options_dict(activation, lstm_dims, lstm_layers, pos_dims),
          params |-> None, model |-> None]
    ELSE [options |-> Unset, params |-> Unset, model |-> Unset]

Tanh == <<"tanh">>
ActivationArgs == {PyStr(Tanh), PyInt(1), None}
LayersArgs == {PyInt(2), PyInt(0), PyInt(-1), PyBool(TRUE), PyFloat(2)}
DimsArgs == {PyInt(125), PyInt(-5), PyStr(<<"125">>)}
PosArgs == {PyInt(25), PyFloat(25), None}

Call(op, args, out, log) == [op |-> op, args |-> args, out |-> out, log |-> log]

Construct(activation, lstm_layers, lstm_dims, pos_dims) ==
    LET r == InitResult(activation, lstm_layers, lstm_dims, pos_dims)
    IN /\ options' = r.options
       /\ params' = r.params
       /\ model' = r.model
       /\ ready' = FALSE
       /\ saved' = (IF saved.type = "save" /\ saved.options = r.options THEN saved ELSE None)
       /\ last' = Call("construct", <<activation, lstm_layers, lstm_dims, pos_dims>>,
                       Return(None), <<>>)
       /\ UNCHANGED disk

\* the state after BISTModel(activation, lstm_layers, lstm_dims, pos_dims)
Constructed(activation, lstm_layers, lstm_dims, pos_dims) ==
    LET r == InitResult(activation, lstm_layers, lstm_dims, pos_dims)
    IN /\ options = r.options
       /\ params = r.params
       /\ model = r.model
       /\ ready = FALSE
       /\ saved = None
       /\ last = Call("construct", <<activation, lstm_layers, lstm_dims, pos_dims>>,
                      Return(None), <<>>)
       /\ disk = [p \in DiskPaths |-> IF p \in DataFiles THEN Conll ELSE Absent]

Self == [options |-> options, params |-> params, model |-> model]

\* the result of a method: the object's attributes, the outcome, the calls completed
Result(self, out, log) == [self |-> self, out |-> out, log |-> log]

\* a call passed its guard and returned normally
Completed(guard, r) == guard /\ r.out.kind = "return"

\* self.model is usable: the attribute exists and is not None
HasModel(self) == self.model.type = "MSTParserLSTM"

(***************************************************************************)
(* BISTModel.fit                                                           *)
(***************************************************************************)
DatasetArgs ==
    {PyStr(TrainFile), PyStr(NoExtFile), PyStr(DotDirFile), PyStr(MissingFile), PyInt(3)}
FitDatasetArgs == {PyStr(TrainFile), PyStr(NoExtFile), PyStr(MissingFile), PyInt(3)}
EpochsArgs == {PyInt(n) : n \in -1..MaxEpochs} \cup {PyStr(<<"3">>)}
DevArgs ==
    {None, PyInt(0), PyInt(3), PyStr(TrainFile), PyStr(NoExtFile), PyStr(DotDirFile)}

\* variant: the guard without os.path.isfile(dataset)
FitGuardNoIsFile(dataset, epochs, dev) ==
    IsStr(dataset) /\ IsInt(epochs) /\ (~Truthy(dev) \/ IsStr(dev))

FitGuard(dataset, epochs, dev) ==
    /\ IsStr(dataset) /\ IsFile(dataset.s)
    /\ IsInt(epochs)
    /\ (~Truthy(dev) \/ IsStr(dev))

\* the body of the loop for epoch k (1-based), lines 71-77
EpochBody(k, dataset, dev, fail) ==
    LET train == <<Ev("train", dataset.s, <<>>)>>
    IN IF fail = FailAt("train", k) THEN Result(Unset, Raise("CollaboratorError"), <<>>)
       ELSE IF ~Truthy(dev) THEN Result(Unset, Return(None), train)
       ELSE IF ~HasDot(dev.s) THEN Result(Unset, Raise("ValueError"), train)
       ELSE LET res_path == EpochPredPath(dev.s, k)
                pred == Ev("predict", dev.s, <<>>)
                write == Ev("write", res_path, <<>>)
                eval == Ev("eval", dev.s, res_path)
            IN IF fail = FailAt("predict", k) \/ ~IsFile(dev.s)
               THEN Result(Unset, Raise("CollaboratorError"), train)
               ELSE IF fail = FailAt("write", k) \/ ~Writable(res_path)
               THEN Result(Unset, Raise("CollaboratorError"), train \o <<pred>>)
               ELSE IF fail = FailAt("eval", k)
               THEN Result(Unset, Raise("CollaboratorError"), train \o <<pred, write>>)
               ELSE Result(Unset, Return(None), train \o <<pred, write, eval>>)

\* for epoch in range(epochs), from epoch k on
RECURSIVE RunEpochs(_, _, _, _, _)
RunEpochs(k, n, dataset, dev, fail) ==
    IF k > n THEN Result(Unset, Return(None), <<>>)
    ELSE LET b == EpochBody(k, dataset, dev, fail)
         IN IF b.out.kind = "raise" THEN b
            ELSE LET rest == RunEpochs(k + 1, n, dataset, dev, fail)
                 IN Result(Unset, rest.out, b.log \o rest.log)

FitResult(self, dataset, epochs, dev, fail) ==
    IF ~FitGuard(dataset, epochs, dev) THEN Result(self, Return(None), <<>>)
    ELSE IF fail = FailAt("vocab", 0) THEN Result(self, Raise("CollaboratorError"), <<>>)
    ELSE IF self.options.type = "unset" THEN Result(self, Raise("AttributeError"), <<>>)
    ELSE LET p == PyTuple(Vocab(dataset.s) \o <<self.options>>)
             s1 == [self EXCEPT !.params = p]
         IN IF fail = FailAt("ctor", 0) THEN Result(s1, Raise("CollaboratorError"), <<>>)
            ELSE LET s2 == [s1 EXCEPT !.model = MSTParserLSTM(p)]
                     run == RunEpochs(1, IntOf(epochs), dataset, dev, fail)
                 IN Result(s2, run.out, run.log)

Fit(dataset, epochs, dev, fail) ==
    LET r == FitResult(Self, dataset, epochs, dev, fail)
    IN /\ options' = r.self.options
       /\ params' = r.self.params
       /\ model' = r.self.model
       /\ ready' = (ready \/ Completed(FitGuard(dataset, epochs, dev), r))
       /\ saved' = None
       /\ last' = Call("fit", <<dataset, epochs, dev>>, r.out, r.log)
       /\ UNCHANGED disk

(***************************************************************************)
(* BISTModel.predict                                                       *)
(***************************************************************************)
EvaluateArgs == {PyBool(TRUE), PyBool(FALSE)}

PredictGuard(dataset) == IsStr(dataset) /\ IsFile(dataset.s)

PredictResult(self, dataset, evaluate, fail) ==
    IF ~PredictGuard(dataset) THEN Result(self, Return(None), <<>>)
    ELSE IF ~HasModel(self) THEN Result(self, Raise("AttributeError"), <<>>)
    ELSE IF fail = FailAt("predict", 1) THEN Result(self, Raise("CollaboratorError"), <<>>)
    ELSE LET res == PyList(Parsed(Sentences(dataset.s)))
             pred == Ev("predict", dataset.s, <<>>)
         IN IF ~Truthy(evaluate) THEN Result(self, Return(res), <<pred>>)
            ELSE IF ~HasDot(dataset.s) THEN Result(self, Raise("ValueError"), <<pred>>)
            ELSE LET pred_path == PredPath(dataset.s)
                     write == Ev("write", pred_path, <<>>)
                     eval == Ev("eval", dataset.s, pred_path)
                 IN IF fail = FailAt("write", 1) \/ ~Writable(pred_path)
                    THEN Result(self, Raise("CollaboratorError"), <<pred>>)
                    ELSE IF fail = FailAt("eval", 1)
                    THEN Result(self, Raise("CollaboratorError"), <<pred, write>>)
                    ELSE Result(self, Return(res), <<pred, write, eval>>)

Predict(dataset, evaluate, fail) ==
    LET r == PredictResult(Self, dataset, evaluate, fail)
    IN /\ options' = r.self.options
       /\ params' = r.self.params
       /\ model' = r.self.model
       /\ last' = Call("predict", <<dataset, evaluate>>, r.out, r.log)
       /\ saved' = None
       /\ UNCHANGED <<disk, ready>>

(***************************************************************************)
(* BISTModel.predict_conll                                                 *)
(***************************************************************************)
ConllArgs == {PyList(<<>>), PyList(Sentences(TrainFile)), PyInt(3), None}

PredictConllResult(self, dataset, fail) ==
    IF ~IsIterable(dataset) THEN Result(self, Return(None), <<>>)
    ELSE IF ~HasModel(self) THEN Result(self, Raise("AttributeError"), <<>>)
    ELSE IF fail = FailAt("predict", 1) THEN Result(self, Raise("CollaboratorError"), <<>>)
    ELSE Result(self, Return(PyList(Parsed(dataset.items))),
                <<Ev("predict", <<>>, <<>>)>>)

PredictConll(dataset, fail) ==
    LET r == PredictConllResult(Self, dataset, fail)
    IN /\ options' = r.self.options
       /\ params' = r.self.params
       /\ model' = r.self.model
       /\ last' = Call("predict_conll", <<dataset>>, r.out, r.log)
       /\ saved' = None
       /\ UNCHANGED <<disk, ready>>

(***************************************************************************)
(* BISTModel.load                                                          *)
(***************************************************************************)
PathArgs ==
    {PyStr(ModelFile), PyStr(BareModelFile), PyStr(NoDirModelFile), PyStr(TrainFile),
     PyInt(3)}

LoadGuard(path) == IsStr(path) /\ IsFile(path.s)

LoadResult(self, path, fail) ==
    IF ~LoadGuard(path) THEN Result(self, Return(None), <<>>)
    ELSE LET file == disk[ParamsPath(path.s)]
         IN IF file.kind = "absent" THEN Result(self, Raise("FileNotFoundError"), <<>>)
            ELSE IF file.doc.j = "empty" THEN Result(self, Raise("JSONDecodeError"), <<>>)
            ELSE LET s1 == [self EXCEPT !.params = JsonLoad(file.doc)]
                 IN IF s1.params.type = "NoneType"
                    THEN Result(s1, Raise("TypeError"), <<>>)
                    ELSE IF fail = FailAt("ctor", 0)
                    THEN Result(s1, Raise("CollaboratorError"), <<>>)
                    ELSE LET s2 == [s1 EXCEPT !.model = MSTParserLSTM(s1.params)]
                         IN IF fail = FailAt("load", 0)
                            THEN Result(s2, Raise("CollaboratorError"), <<>>)
                            ELSE Result(s2, Return(None), <<Ev("load", path.s, <<>>)>>)

Load(path, fail) ==
    LET r == LoadResult(Self, path, fail)
    IN /\ options' = r.self.options
       /\ params' = r.self.params
       /\ model' = r.self.model
       /\ ready' = (ready \/ Completed(LoadGuard(path), r))
       /\ saved' = (IF saved.type = "save" /\ saved.path = path /\ saved.options = options
                       /\ params = None /\ model = None
                    THEN [saved EXCEPT !.type = "loaded"]
                    ELSE None)
       /\ last' = Call("load", <<path>>, r.out, r.log)
       /\ UNCHANGED disk

(***************************************************************************)
(* BISTModel.save                                                          *)
(***************************************************************************)
SaveGuard(path) == IsStr(path) /\ IsDir(Dirname(path.s))

\* lines 127-128: open(..., 'w') creates or truncates params.json before
\* self.params is read
SaveParamsFile(self) ==
    IF self.params.type = "unset" THEN Json(JEmpty) ELSE Json(JsonDump(self.params))

\* variant: self.model = self.model.save(path)
SaveResultRebinds(self, path, fail) ==
    IF ~(IsStr(path) /\ IsDir(Dirname(path.s))) THEN Result(self, Return(None), <<>>)
    ELSE IF self.params.type = "unset" THEN Result(self, Raise("AttributeError"), <<>>)
    ELSE IF ~HasModel(self) THEN Result(self, Raise("AttributeError"), <<>>)
    ELSE IF fail = FailAt("save", 0) THEN Result(self, Raise("CollaboratorError"), <<>>)
    ELSE Result([self EXCEPT !.model = None], Return(None), <<Ev("save", path.s, <<>>)>>)

SaveResult(self, path, fail) ==
    IF ~SaveGuard(path) THEN Result(self, Return(None), <<>>)
    ELSE IF self.params.type = "unset" THEN Result(self, Raise("AttributeError"), <<>>)
    ELSE IF ~HasModel(self) THEN Result(self, Raise("AttributeError"), <<>>)
    ELSE IF fail = FailAt("save", 0) THEN Result(self, Raise("CollaboratorError"), <<>>)
    ELSE Result(self, Return(None), <<Ev("save", path.s, <<>>)>>)

\* the files after save
SaveDisk(self, path, r) ==
    IF ~SaveGuard(path) THEN disk
    ELSE LET d1 == [disk EXCEPT ![ParamsPath(path.s)] = SaveParamsFile(self)]
         IN IF r.out.kind = "return" THEN [d1 EXCEPT ![path.s] = Weights] ELSE d1

Save(path, fail) ==
    LET r == SaveResult(Self, path, fail)
    IN /\ options' = r.self.options
       /\ params' = r.self.params
       /\ model' = r.self.model
       /\ disk' = SaveDisk(Self, path, r)
       /\ saved' = (IF HasModel(Self) /\ r.out.kind = "return"
                    THEN [type |-> "save", path |-> path, params |-> params,
                          options |-> options]
                    ELSE None)
       /\ last' = Call("save", <<path>>, r.out, r.log)
       /\ UNCHANGED ready

(***************************************************************************)
(* Programs: the calls made on the facade, in any order                    *)
(***************************************************************************)
AnyConstruct ==
    \E a \in ActivationArgs, l \in LayersArgs, d \in DimsArgs, p \in PosArgs :
      Construct(a, l, d, p)

\* a construction with the default arguments, or with a bad activation
SomeConstruct == \E a \in {PyStr(Tanh), PyInt(1)} : Construct(a, PyInt(2), PyInt(125), PyInt(25))

AnyFit ==
    \E ds \in FitDatasetArgs, ep \in EpochsArgs, dev \in DevArgs :
      \E f \in FitFails(ep, dev) : Fit(ds, ep, dev, f)

SomeFit ==
    \E ds \in {PyStr(TrainFile), PyInt(3)}, ep \in {PyInt(0), PyInt(1)},
       dev \in {None, PyStr(TrainFile)} :
      \E f \in FitFails(ep, dev) : Fit(ds, ep, dev, f)

AnyPredict ==
    \E ds \in DatasetArgs, ev \in EvaluateArgs, f \in PredictFails : Predict(ds, ev, f)

SomePredict ==
    \E ds \in {PyStr(TrainFile), PyStr(MissingFile)}, ev \in EvaluateArgs,
       f \in PredictFails : Predict(ds, ev, f)

AnyPredictConll == \E ds \in ConllArgs, f \in PredictConllFails : PredictConll(ds, f)

AnyLoad == \E path \in PathArgs, f \in LoadFails : Load(path, f)

AnySave == \E path \in PathArgs, f \in SaveFails : Save(path, f)

\* every method, on one configuration
Init == \E a \in {PyStr(Tanh), PyInt(1)} : Constructed(a, PyInt(2), PyInt(125), PyInt(25))

Next ==
    \/ SomeConstruct
    \/ SomeFit
    \/ SomePredict
    \/ AnyPredictConll
    \/ AnyLoad
    \/ AnySave

Spec == Init /\ [][Next]_vars

\* construction alone, over every kind of argument
InitAny ==
    \E a \in ActivationArgs, l \in LayersArgs, d \in DimsArgs, p \in PosArgs :
      Constructed(a, l, d, p)

NextInit == AnyConstruct

SpecInit == InitAny /\ [][NextInit]_vars

\* training, over every kind of argument
NextFit ==
    \/ SomeConstruct
    \/ AnyFit

SpecFit == Init /\ [][NextFit]_vars

\* inference, over every kind of argument
NextPredict ==
    \/ SomeConstruct
    \/ SomeFit
    \/ AnyPredict
    \/ AnyPredictConll

SpecPredict == Init /\ [][NextPredict]_vars

(***************************************************************************)
(* Properties                                                              *)
(***************************************************************************)
Absent3 == options = Unset /\ params = Unset /\ model = Unset

ModelAbsent == model.type \in {"NoneType", "unset"}

IsBundle(v) == v.type \in {"tuple", "list"}

\* C1: the model handle is absent unless an earlier fit or load on this
\* object completed successfully; a fit or load that aborts part-way leaves
\* an absent handle absent.
C1_HandleAbsentUntilSuccess == ~ModelAbsent => ready

\* C2: a construction whose activation is not a string, or one of whose
\* lstm_layers, lstm_dims, pos_dims is not an integer, ends in an
\* InvalidConfiguration error or leaves all of options, params and model
\* unassigned: never only some of them.
C2_BadTypesLeaveUnconfigured ==
    (/\ last.op = "construct"
     /\ \/ last.args[1].type # "str"
        \/ \E i \in 2..4 : last.args[i].type \notin {"int", "bool"})
    => (last.out = Raise("InvalidConfiguration") \/ Absent3)

C2_Witness ==
    /\ last.op = "construct"
    /\ last.args[1].type = "str"
    /\ last.args[2].type = "float"
    /\ last.args[3].type = "int"
    /\ last.args[4].type = "int"
    /\ Absent3

\* C3 as stated: construct yields a configured facade only when activation
\* is a string and the three numbers are positive integers.
C3_OnlyPositiveAccepted ==
    (last.op = "construct" /\ options # Unset)
    => (/\ last.args[1].type = "str"
        /\ \A i \in 2..4 : last.args[i].type \in {"int", "bool"} /\ IntOf(last.args[i]) > 0)

\* C3 amended: construct yields a configured facade exactly when activation
\* is a string and the three numbers are integers, whatever their sign; the
\* configured facade records the values given and holds no bundle and no model.
C3_IntegersOfAnySignAccepted ==
    last.op = "construct"
    => LET typed == /\ last.args[1].type = "str"
                    /\ \A i \in 2..4 : last.args[i].type \in {"int", "bool"}
       IN IF typed
          THEN /\ options.type = "dict"
               /\ options.activation = last.args[1]
               /\ options.lstm_layers = last.args[2]
               /\ options.lstm_dims = last.args[3]
               /\ options.pos_dims = last.args[4]
               /\ params = None
               /\ model = None
          ELSE Absent3

C3_Witness ==
    /\ last.op = "construct"
    /\ last.args[2] = PyInt(0)
    /\ last.args[3] = PyInt(-5)
    /\ options.type = "dict"
    /\ options.lstm_layers = PyInt(0)

\* the preconditions of fit as the specification states them
StatedFitPre(dataset, epochs, dev) ==
    /\ dataset.type = "str" /\ IsFile(dataset.s)
    /\ epochs.type \in {"int", "bool"} /\ IntOf(epochs) >= 0
    /\ (dev = None \/ dev.type = "str")

\* the preconditions of fit as the code tests them
TestedFitPre(dataset, epochs, dev) ==
    /\ dataset.type = "str" /\ IsFile(dataset.s)
    /\ epochs.type \in {"int", "bool"}
    /\ (dev.type = "str" \/ ~Truthy(dev))

\* a step that is a call of fit and changes nothing of the facade, runs no
\* collaborator and returns None
FitNoOp ==
    /\ params' = params
    /\ model' = model
    /\ options' = options
    /\ last'.log = <<>>
    /\ last'.out = Return(None)

\* C4 as stated: a fit whose dataset is not a string naming an existing
\* file, or whose epochs is not a non-negative integer, or whose dev is
\* given and not a string, is a no-op.
C4_StatedPreFailureIsNoOp ==
    [][(last'.op = "fit" /\ ~StatedFitPre(last'.args[1], last'.args[2], last'.args[3]))
         => FitNoOp]_vars

\* C4 amended: a fit whose dataset is not a string naming an existing file,
\* or whose epochs is not an integer, or whose dev is truthy and not a
\* string, is a no-op.
C4_TestedPreFailureIsNoOp ==
    [][(last'.op = "fit" /\ ~TestedFitPre(last'.args[1], last'.args[2], last'.args[3]))
         => FitNoOp]_vars

C4_Witness ==
    /\ last.op = "fit"
    /\ last.args[1] = PyStr(MissingFile)
    /\ last.out = Return(None)
    /\ last.log = <<>>
    /\ ~ModelAbsent
    /\ IsBundle(params)

\* C5: with the model handle absent, predict, predict_conll and save end in
\* a ModelNotReady error, whatever the argument.
C5_AbsentModelRaisesModelNotReady ==
    (last.op \in {"predict", "predict_conll", "save"} /\ ModelAbsent)
    => last.out = Raise("ModelNotReady")

\* where the extension of the file named by p starts, as os.path.splitext
\* finds it (past the end when the file has none)
ExtStart(p) ==
    LET sep == IF Positions(p, "/") = {} THEN 0 ELSE Last(Positions(p, "/"))
        dots == {i \in Positions(p, ".") : i > sep /\ \E j \in (sep + 1)..(i - 1) : p[j] # "."}
    IN IF dots = {} THEN Len(p) + 1 ELSE Last(dots)

InsertBeforeExt(p, toks) ==
    SubSeq(p, 1, ExtStart(p) - 1) \o toks \o SubSeq(p, ExtStart(p), Len(p))

\* the collaborator calls of epochs k..n of a fit with a dev file
RECURSIVE StatedFitLog(_, _, _, _)
StatedFitLog(k, n, dataset, dev) ==
    IF k > n THEN <<>>
    ELSE LET path == InsertBeforeExt(dev, <<"_epoch_", ToString(k), "_pred">>)
         IN <<Ev("train", dataset, <<>>), Ev("predict", dev, <<>>), Ev("write", path, <<>>),
              Ev("eval", dev, path)>> \o StatedFitLog(k + 1, n, dataset, dev)

Writes(log) == {i \in 1..Len(log) : log[i].ev = "write"}
Trains(log) == {i \in 1..Len(log) : log[i].ev = "train"}

\* C6: a fit whose preconditions hold, with epochs = N and a dev file, and in
\* which no collaborator raises, runs N training passes and after the k-th
\* predicts dev, writes the file named by inserting _epoch_<k>_pred before
\* the dev file's extension and evaluates dev against it, for k = 1..N in
\* order; without a dev path it writes nothing.
C6_EpochsTrainPredictWriteEval ==
    (/\ last.op = "fit"
     /\ options # Unset
     /\ StatedFitPre(last.args[1], last.args[2], last.args[3])
     /\ last.out.exc # "CollaboratorError")
    => IF last.args[3] = None
       THEN /\ Writes(last.log) = {}
            /\ Cardinality(Trains(last.log)) = IntOf(last.args[2])
       ELSE /\ IsFile(last.args[3].s)
            => last.log = StatedFitLog(1, IntOf(last.args[2]), last.args[1].s, last.args[3].s)

\* a parameter bundle read back as equivalent: the same items in the same
\* order, in a tuple or in a list
Equivalent(a, b) ==
    \/ a = None /\ b = None
    \/ IsBundle(a) /\ IsBundle(b) /\ a.items = b.items

\* the directory that holds the file named by p exists; a bare file name is
\* held by the current directory
DirectoryExists(p) == Dirname(p) = <<>> \/ Dirname(p) \in Dirs

\* C7: after save(path) returned on a facade with a model, for a path whose
\* directory exists, load(path) on a new facade of the same configuration
\* leaves it with a bundle equivalent to the one the saving facade held.
C7_SaveLoadRoundTrip ==
    (/\ saved.type = "loaded"
     /\ saved.path.type = "str"
     /\ DirectoryExists(saved.path.s))
    => Equivalent(params, saved.params)

\* C8: predict on a facade with a model and an existing dataset file, when no
\* collaborator raises, returns one parsed sentence per input sentence in
\* input order; with evaluate it writes one file, named by inserting _pred
\* before the dataset file's extension, and then evaluates the dataset
\* against it; without evaluate it writes and evaluates nothing.
C8_PredictReturnsAndEvaluates ==
    (/\ last.op = "predict"
     /\ ~ModelAbsent
     /\ last.args[1].type = "str" /\ IsFile(last.args[1].s)
     /\ last.out.exc # "CollaboratorError")
    => LET ds == last.args[1].s
           path == InsertBeforeExt(ds, <<"_pred">>)
       IN /\ last.out = Return(PyList(Parsed(Sentences(ds))))
          /\ IF last.args[2] = PyBool(TRUE)
             THEN last.log = <<Ev("predict", ds, <<>>), Ev("write", path, <<>>),
                               Ev("eval", ds, path)>>
             ELSE last.log = <<Ev("predict", ds, <<>>)>>

\* C9: a present model handle is the one built from the stored bundle, and a
\* stored bundle has the model built from it.
C9_ModelBoundToBundle ==
    /\ ~ModelAbsent => model.built = params
    /\ IsBundle(params) => (~ModelAbsent /\ model.built = params)

\* C10: no call after construction changes options; predict, predict_conll
\* and save change neither params nor model.
C10_Frame ==
    [][/\ last'.op # "construct" => options' = options
       /\ last'.op \in {"predict", "predict_conll", "save"}
            => (params' = params /\ model' = model)]_vars

C10_Witness ==
    /\ last.op = "save"
    /\ last.out = Return(None)
    /\ ~ModelAbsent
    /\ IsBundle(params)
    /\ options.type = "dict"
    /\ disk[ModelFile] = Weights
====
